---- MODULE Spec2Model ----
(***************************************************************************)
(* RAG knowledge-base service (main.py, utils.py).                         *)
(*                                                                         *)
(* Strings are modelled as sequences of atoms (TLA+ strings): an atom is   *)
(* a whitespace character " ", a comma ",", or a lexeme that contains      *)
(* neither.  Concatenation is \o, so str.strip, str.lower, str.split and   *)
(* the f-strings of the source are computed on these sequences.            *)
(*                                                                         *)
(* Every HTTP handler of main.py is an `async def` that calls the          *)
(* blocking helpers of utils.py without awaiting, so inside one process a  *)
(* handler runs to completion before the next one starts: one action per   *)
(* handler, followed by the step that sends its response and leaves the    *)
(* server idle again.  External collaborators (bucket, hosted file API, hosted       *)
(* search store, generation endpoint, MongoDB) are state variables plus a  *)
(* nondeterministic outcome chosen per call.                               *)
(***************************************************************************)
EXTENDS Integers, Sequences, FiniteSets, TLC

\* ---------------------------------------------------------------- bounds
MaxDocs == 2          \* ingests attempted in one behaviour
MaxRequests == 3      \* requests served in one behaviour
SubSecondTicks == 2   \* clock readings per wall-clock second
MaxWorkers == 2       \* deletes served side by side
MaxProcs == 3         \* processes loading utils.py

\* ------------------------------------------------------- program constants
max_wait == 60        \* utils.py:145
poll_interval == 2    \* utils.py:148-149
max_output_tokens == 1500   \* utils.py:350

GCP_BUCKET_NAME == <<"bkt">>
STORE_NAME == <<"my-rag-knowledge-base-2026">>
MODEL_ID == <<"gemini-2.0-flash">>
display_name_target == <<"RAG Knowledge Base 2026">>
\* the display name of a store of another application
OTHER_STORE == <<"Another Store">>

\* ------------------------------------------------------------ string model
WS == " "
COMMA == ","

RECURSIVE LStrip(_)
LStrip(s) == IF s # <<>> /\ Head(s) = WS THEN LStrip(Tail(s)) ELSE s

RECURSIVE RStrip(_)
RStrip(s) ==
    IF s # <<>> /\ s[Len(s)] = WS THEN RStrip(SubSeq(s, 1, Len(s) - 1)) ELSE s

\* str.strip()
Strip(s) == RStrip(LStrip(s))

LowerAtom(a) ==
    CASE a = "ALL" -> "all"
      [] a = "All" -> "all"
      [] a = "aLL" -> "all"
      [] OTHER -> a

\* str.lower()
Lower(s) == [i \in 1..Len(s) |-> LowerAtom(s[i])]

\* str.split(","): the pieces between commas, empty pieces included
RECURSIVE SplitAcc(_, _, _)
SplitAcc(s, cur, acc) ==
    IF s = <<>> THEN Append(acc, cur)
    ELSE IF Head(s) = COMMA THEN SplitAcc(Tail(s), <<>>, Append(acc, cur))
    ELSE SplitAcc(Tail(s), Append(cur, Head(s)), acc)

SplitComma(s) == SplitAcc(s, <<>>, <<>>)

\* [p.strip() for p in s.split(",") if p.strip()]
StripNonEmpty(pieces) ==
    LET stripped == [i \in 1..Len(pieces) |-> Strip(pieces[i])]
    IN  SelectSeq(stripped, LAMBDA p : p # <<>>)

ParseCsv(s) == StripNonEmpty(SplitComma(s))

\* Optional[...] values: None, or a value
None == [some |-> FALSE, v |-> <<>>]
Some(x) == [some |-> TRUE, v |-> x]
\* Python truthiness of an Optional[str] / Optional[list]
Truthy(o) == o.some /\ o.v # <<>>

\* ------------------------------------------------------------- identifiers
HexDigits == {"0", "1", "2", "3", "4", "5", "6", "7", "8", "9",
              "a", "b", "c", "d", "e", "f"}
OidPrefix == "65f00000000000000000000"

\* str(ObjectId) of the n-th inserted document
OidStr(n) == <<OidPrefix, ToString(n)>>

\* ObjectId(s) succeeds
IsValidObjectId(s) == Len(s) = 2 /\ s[1] = OidPrefix /\ s[2] \in HexDigits

\* name of the n-th hosted file
HostedName(n) == <<"files/", ToString(n)>>

\* int(time.time())
Seconds(t) == t \div SubSecondTicks

\* f"kb/{int(time.time())}_{original_filename}"
BlobName(t, original_filename) ==
    <<"kb/", ToString(Seconds(t)), "_">> \o original_filename

UrlPrefix == <<"https://storage.googleapis.com/">>

\* f"https://storage.googleapis.com/{GCP_BUCKET_NAME}/{blob_name}"
GcsUrl(blob_name) == UrlPrefix \o GCP_BUCKET_NAME \o <<"/">> \o blob_name

\* gcp_link.split(f"{GCP_BUCKET_NAME}/")[-1]
RECURSIVE AfterLastSep(_, _, _)
AfterLastSep(s, sep, i) ==
    IF i < 1 THEN s
    ELSE IF SubSeq(s, i, i + Len(sep) - 1) = sep
         THEN SubSeq(s, i + Len(sep), Len(s))
         ELSE AfterLastSep(s, sep, i - 1)

BlobNameOfUrl(gcp_link) ==
    LET sep == GCP_BUCKET_NAME \o <<"/">>
    IN  AfterLastSep(gcp_link, sep, Len(gcp_link) - Len(sep) + 1)

\* ------------------------------------------------------------------ state
VARIABLES
    catalog,            \* kb_collection: document records, in insertion order
    blobs,              \* bucket contents: records [name, content]
    bucketExists,       \* the bucket GCP_BUCKET_NAME exists
    hostedFiles,        \* names of the live files of the hosted File API
    chat_history,       \* chat_history_collection, in insertion order
    history,            \* history_collection, in insertion order
    ACTIVE_STORE_NAME,  \* utils.py:400, resolved once at module load
    now,                \* time.time(), in clock readings
    served,             \* requests served so far
    nextId,             \* ObjectIds handed out so far
    nextFile,           \* local files received so far (names hosted files)
    last,               \* the request handled last and what it returned
    ingested,           \* history: [id, original_filename] of successful ingests
    removed,            \* history: ids whose catalog row a delete removed
    deleters,           \* per worker: the delete it serves and where it stands
    file_search_stores, \* display names of the hosted file-search stores
    loaders             \* per process: where its load of utils.py stands

vars == <<catalog, blobs, bucketExists, hostedFiles, chat_history, history,
          ACTIVE_STORE_NAME, now, served, nextId, nextFile, last, ingested,
          removed, deleters, file_search_stores, loaders>>

\* ------------------------------------------------------------- input menus
\* a file whose name reads as a well-formed ObjectId
IdLikeName == <<OidPrefix, "e">>

Filenames == {<<"a.pdf">>, IdLikeName}

Questions == {<<>>, <<WS, WS>>, <<WS, "why?", WS>>}

\* response.text of the hosted model: None, or a string
ResponseTexts == {None, Some(<<WS>>), Some(<<WS, "answer", WS>>)}

\* outcome of one generate_content call
GenOutcomes ==
    {[raises |-> TRUE, text |-> None]} \cup
    {[raises |-> FALSE, text |-> t] : t \in ResponseTexts}

\* outcome of the import into the search store (utils.py:136-155):
\* the import call raises; or the operation is done after doneAfter polls;
\* or the poll numbered pollRaisesAt raises
NeverDone == (max_wait \div poll_interval) + 1
LastPoll == max_wait \div poll_interval
ImportOutcomes ==
    {[start |-> "raises", doneAfter |-> 0, pollRaisesAt |-> 0],
     [start |-> "ok", doneAfter |-> 0, pollRaisesAt |-> 0],
     [start |-> "ok", doneAfter |-> LastPoll, pollRaisesAt |-> 0],
     [start |-> "ok", doneAfter |-> NeverDone, pollRaisesAt |-> 0],
     [start |-> "ok", doneAfter |-> NeverDone, pollRaisesAt |-> LastPoll]}

GcsOutcomes == {"ok", "bucket_fails", "upload_fails"}

\* -------------------------------------------------------- document records
DocFields == {"_id", "original_filename", "display_name", "gcp_link",
              "gemini_file_name", "uploaded_at", "metadata", "status"}

\* "key" in doc
Has(doc, key) == key \in doc.fields

\* doc.get("gemini_file_name"), tested for truth
HasRef(doc) == Has(doc, "gemini_file_name") /\ doc.gemini_file_name # <<>>

\* a record written before gcp_link and gemini_file_name were stored
LegacyDoc ==
    [_id |-> OidStr(0), original_filename |-> <<"old.pdf">>,
     display_name |-> <<"old.pdf">>, gcp_link |-> <<>>,
     gemini_file_name |-> <<>>, uploaded_at |-> 0, status |-> "active",
     fields |-> DocFields \ {"gcp_link", "gemini_file_name"}]

Ids(docs) == {docs[i]._id : i \in 1..Len(docs)}

\* ------------------------------------------------------ search-store adapter
\* stores: the display names of the hosted stores, listFails: list() raises
ensure_file_search_store_exists(stores, listFails) ==
    IF listFails THEN [name |-> STORE_NAME, stores |-> stores, created |-> FALSE]
    ELSE IF \E i \in 1..Len(stores) : stores[i] = display_name_target
    THEN LET i == CHOOSE j \in 1..Len(stores) :
                    /\ stores[j] = display_name_target
                    /\ \A k \in 1..(j - 1) : stores[k] # display_name_target
         IN  [name |-> <<"fileSearchStores/", ToString(i)>>,
              stores |-> stores, created |-> FALSE]
    ELSE [name |-> <<"fileSearchStores/", ToString(Len(stores) + 1)>>,
          stores |-> Append(stores, display_name_target), created |-> TRUE]

\* --------------------------------------------------------- blob-store adapter
\* blob-store errors caught and logged inside the adapter
upload_to_gcs_swallow(content, blob_name, gcs) ==
    [raised |-> FALSE, url |-> GcsUrl(blob_name),
     blobs |-> IF gcs = "ok"
               THEN {b \in blobs : b.name # blob_name}
                        \cup {[name |-> blob_name, content |-> content]}
               ELSE blobs,
     bucketExists |-> bucketExists \/ gcs # "bucket_fails",
     calls |-> {"gcs.get_bucket", "gcs.upload"}]

\* create_bucket_if_not_exists then blob.upload_from_filename
upload_to_gcs(content, blob_name, gcs) ==
    LET getOk == bucketExists /\ gcs # "bucket_fails"
        bucketOk == gcs # "bucket_fails"
        bcalls == IF getOk THEN {"gcs.get_bucket"}
                  ELSE {"gcs.get_bucket", "gcs.create_bucket"}
    IN  IF ~bucketOk
        THEN [raised |-> TRUE, url |-> <<>>, blobs |-> blobs,
              bucketExists |-> bucketExists, calls |-> bcalls]
        ELSE IF gcs = "upload_fails"
        THEN [raised |-> TRUE, url |-> <<>>, blobs |-> blobs,
              bucketExists |-> TRUE, calls |-> bcalls \cup {"gcs.upload"}]
        ELSE [raised |-> FALSE, url |-> GcsUrl(blob_name),
              blobs |-> {b \in blobs : b.name # blob_name}
                            \cup {[name |-> blob_name, content |-> content]},
              bucketExists |-> TRUE, calls |-> bcalls \cup {"gcs.upload"}]

\* ------------------------------------------------------------ the poll loop
\* the loop with the time-out tested as waited > max_wait
RECURSIVE PollLoop_late(_, _, _, _)
PollLoop_late(done, waited, polls, imp) ==
    IF done THEN [raised |-> FALSE, done |-> TRUE, waited |-> waited, polls |-> polls]
    ELSE LET w == waited + poll_interval
             p == polls + 1
         IN  IF imp.pollRaisesAt = p
             THEN [raised |-> TRUE, done |-> FALSE, waited |-> w, polls |-> p]
             ELSE IF w > max_wait
             THEN [raised |-> FALSE, done |-> p >= imp.doneAfter,
                   waited |-> w, polls |-> p]
             ELSE PollLoop_late(p >= imp.doneAfter, w, p, imp)

\* utils.py:144-153.  done: upload_op.done; polls: operations.get calls made
RECURSIVE PollLoop(_, _, _, _)
PollLoop(done, waited, polls, imp) ==
    IF done THEN [raised |-> FALSE, done |-> TRUE, waited |-> waited, polls |-> polls]
    ELSE LET w == waited + poll_interval
             p == polls + 1
         IN  IF imp.pollRaisesAt = p
             THEN [raised |-> TRUE, done |-> FALSE, waited |-> w, polls |-> p]
             ELSE IF w >= max_wait
             THEN [raised |-> FALSE, done |-> p >= imp.doneAfter,
                   waited |-> w, polls |-> p]
             ELSE PollLoop(p >= imp.doneAfter, w, p, imp)

\* utils.py:135-158: import call, poll loop, everything caught
ImportIntoStore(imp) ==
    IF imp.start = "raises"
    THEN [raised |-> TRUE, done |-> FALSE, waited |-> 0, polls |-> 0]
    ELSE PollLoop(imp.doneAfter = 0, 0, 0, imp)

\* ------------------------------------------------------------------ ingest
\* a failed registration logged and skipped
RegistrationAborts_skipped(reg) == FALSE

\* utils.py:125-131: client.files.upload is called outside any try/except,
\* so its exception leaves the pipeline
RegistrationAborts(reg) == reg = "fails"

\* the import step outside its try/except, a timeout raised as an error
ImportAborts_uncaught(im) == im.raised \/ ~im.done

\* utils.py:135-158: the import call and the poll loop are inside
\* try/except Exception, and the timeout only breaks out of the loop
ImportAborts(im) == FALSE

\* the record written without its status
NewRecord_no_status(id, original_filename, display_name, gcp_link, gemini_file_name, uploaded_at) ==
    [_id |-> id, original_filename |-> original_filename,
     display_name |-> display_name, gcp_link |-> gcp_link,
     gemini_file_name |-> gemini_file_name, uploaded_at |-> uploaded_at,
     status |-> "", fields |-> DocFields \ {"status"}]

\* utils.py:161-170: the document handed to insert_one, with the _id the
\* store assigns
NewRecord(id, original_filename, display_name, gcp_link, gemini_file_name, uploaded_at) ==
    [_id |-> id, original_filename |-> original_filename,
     display_name |-> display_name, gcp_link |-> gcp_link,
     gemini_file_name |-> gemini_file_name, uploaded_at |-> uploaded_at,
     status |-> "active", fields |-> DocFields]

\* utils.py:93-178.  gcs, reg, imp, ins: the outcomes of the blob upload,
\* of client.files.upload, of the import and of insert_one.
upload_document_to_knowledge_base(original_filename, display_name, gcs, reg, imp, ins) ==
    LET dname == IF ~Truthy(display_name) THEN original_filename
                 ELSE display_name.v
        blob_name == BlobName(now, original_filename)
        g == upload_to_gcs(nextFile, blob_name, gcs)
        file_name == HostedName(nextFile)
        im == ImportIntoStore(imp)
        icalls == {"store.import"} \cup
                  (IF im.polls > 0 THEN {"operations.get"} ELSE {})
        \* time that passes while the pipeline runs, the sleeps included
        elapsed == 1 + im.waited * SubSecondTicks
        doc == NewRecord(OidStr(nextId), original_filename, dname, g.url,
                         file_name, now + elapsed)
        base == [raised |-> TRUE, step |-> "none", gcs |-> gcs,
                 reg |-> IF g.raised THEN "none" ELSE reg,
                 import_raised |-> FALSE,
                 ret |-> [original_filename |-> <<>>, gcp_link |-> <<>>, id |-> <<>>],
                 catalog |-> catalog, blobs |-> g.blobs,
                 bucketExists |-> g.bucketExists, hostedFiles |-> hostedFiles,
                 import_done |-> FALSE, nextId |-> nextId, now |-> now + 1,
                 calls |-> g.calls, polls |-> 0, waited |-> 0]
    IN  IF g.raised THEN [base EXCEPT !.step = "blob"]
        ELSE IF RegistrationAborts(reg)
        THEN [base EXCEPT !.step = "register",
                          !.calls = g.calls \cup {"files.upload"}]
        ELSE IF ImportAborts(im)
        THEN [base EXCEPT !.step = "import",
                          !.hostedFiles = hostedFiles \cup {file_name},
                          !.import_raised = im.raised,
                          !.now = now + elapsed,
                          !.calls = g.calls \cup {"files.upload"} \cup icalls,
                          !.polls = im.polls, !.waited = im.waited]
        ELSE IF ins = "fails"
        THEN [base EXCEPT !.step = "insert",
                          !.hostedFiles = hostedFiles \cup {file_name},
                          !.import_done = im.done,
                          !.import_raised = im.raised,
                          !.now = now + elapsed,
                          !.calls = g.calls \cup {"files.upload", "mongo.insert_one"}
                                        \cup icalls,
                          !.polls = im.polls, !.waited = im.waited]
        ELSE [base EXCEPT !.raised = FALSE,
                          !.ret = [original_filename |-> original_filename,
                                   gcp_link |-> g.url, id |-> OidStr(nextId)],
                          !.catalog = Append(catalog, doc),
                          !.hostedFiles = hostedFiles \cup {file_name},
                          !.import_done = im.done,
                          !.import_raised = im.raised,
                          !.nextId = nextId + 1,
                          !.now = now + elapsed,
                          !.calls = g.calls \cup {"files.upload", "mongo.insert_one"}
                                        \cup icalls,
                          !.polls = im.polls, !.waited = im.waited]

\* ----------------------------------------------------------------- listing
\* utils.py:181-198: find({"status": "active"}, projection), _id renamed id
ListEntry(d) ==
    [id |-> d._id, original_filename |-> d.original_filename,
     display_name |-> d.display_name, gcp_link |-> d.gcp_link,
     uploaded_at |-> d.uploaded_at,
     fields |-> (d.fields \cap {"original_filename", "display_name",
                                "uploaded_at", "gcp_link"}) \cup {"id"}]

\* the listing with the status filter inverted
list_knowledge_base_files_inactive(cat) ==
    LET hits == SelectSeq(cat, LAMBDA d : d.status # "active")
    IN  [i \in 1..Len(hits) |-> ListEntry(hits[i])]

list_knowledge_base_files(cat) ==
    LET active == SelectSeq(cat, LAMBDA d : d.status = "active")
    IN  [i \in 1..Len(active) |-> ListEntry(active[i])]

\* ---------------------------------------------------------------- deletion
\* kb_collection.find_one(query): the first match in natural order, or None
FirstOf(hits) == IF hits = <<>> THEN None ELSE Some(hits[1])

\* delete_one with a filter that matches nothing
DeleteOne_noop(cat, id) == cat

\* utils.py:235: kb_collection.delete_one({"_id": doc["_id"]})
DeleteOne(cat, id) == SelectSeq(cat, LAMBDA d : d._id # id)

\* the hosted-file delete and the blob delete outside any try/except
DeleteRaises_uncaught(hostedFailed, blobFailed, rowOk) ==
    hostedFailed \/ blobFailed \/ ~rowOk

\* utils.py:216-235: the hosted-file delete and the blob delete are each
\* inside try/except, delete_one is not: only its failure leaves the function
DeleteRaises(hostedFailed, blobFailed, rowOk) == ~rowOk

\* the filename tried when no record has the id
FindTarget_either(cat, doc_id_or_filename) ==
    LET byId == SelectSeq(cat, LAMBDA d : d._id = doc_id_or_filename)
    IN  IF IsValidObjectId(doc_id_or_filename) /\ byId # <<>>
        THEN FirstOf(byId)
        ELSE FirstOf(SelectSeq(cat,
               LAMBDA d : d.original_filename = doc_id_or_filename))

\* utils.py:206-212: the query is by _id when ObjectId(...) accepts the
\* input and by original_filename when it raises; find_one(query)
FindTarget(cat, doc_id_or_filename) ==
    IF IsValidObjectId(doc_id_or_filename)
    THEN FirstOf(SelectSeq(cat, LAMBDA d : d._id = doc_id_or_filename))
    ELSE FirstOf(SelectSeq(cat,
           LAMBDA d : d.original_filename = doc_id_or_filename))

\* utils.py:201-237.  hostedOk, blobOk, rowOk: whether the hosted-file
\* delete, the blob delete and delete_one go through.
delete_document_from_knowledge_base(doc_id_or_filename, hostedOk, blobOk, rowOk) ==
    LET found == FindTarget(catalog, doc_id_or_filename)
        doc == found.v
        tryHosted == Has(doc, "gemini_file_name")
        hostedGone == tryHosted /\ hostedOk /\ doc.gemini_file_name \in hostedFiles
        tryBlob == Has(doc, "gcp_link")
        blob_name == BlobNameOfUrl(doc.gcp_link)
        blobGone == /\ tryBlob /\ blobOk /\ bucketExists
                    /\ \E b \in blobs : b.name = blob_name
        calls == {"mongo.find_one", "mongo.delete_one"}
                 \cup (IF tryHosted THEN {"files.delete"} ELSE {})
                 \cup (IF tryBlob THEN {"gcs.get_bucket", "gcs.delete"} ELSE {})
        hostedFailed == tryHosted /\ ~hostedGone
        blobFailed == tryBlob /\ ~blobGone
        raises == DeleteRaises(hostedFailed, blobFailed, rowOk)
        base == [raised |-> FALSE, ret |-> FALSE, found |-> found.some,
                 doc_id |-> <<>>, catalog |-> catalog, blobs |-> blobs,
                 hostedFiles |-> hostedFiles, calls |-> {"mongo.find_one"},
                 hostedFailed |-> FALSE, blobFailed |-> FALSE,
                 rowFailed |-> FALSE]
    IN  IF ~found.some THEN base
        ELSE [base EXCEPT
                !.raised = raises,
                !.ret = ~raises,
                !.doc_id = doc._id,
                !.rowFailed = ~rowOk,
                !.catalog = IF ~raises THEN DeleteOne(catalog, doc._id)
                            ELSE catalog,
                !.blobs = IF blobGone THEN {b \in blobs : b.name # blob_name}
                          ELSE blobs,
                !.hostedFiles = IF hostedGone
                                THEN hostedFiles \ {doc.gemini_file_name}
                                ELSE hostedFiles,
                !.calls = calls,
                !.hostedFailed = hostedFailed,
                !.blobFailed = blobFailed]

\* ------------------------------------------------------- grounding resolver
DEGRADED_ANSWER == <<"The selected document(s) could not be retrieved from Gemini.">>
NO_EXTRACT_ANSWER == <<"The model could not extract a relevant answer from the selected document(s).">>
NO_INFO_ANSWER == <<"I couldn't find relevant information in the knowledge base.">>

\* content parts of a generation request
TextPart(text) == [kind |-> "text", text |-> text, file_uri |-> <<>>]
\* types.Part.from_uri(file_uri=gemini_file.uri, ...)
FilePart(name) == [kind |-> "file", text |-> <<>>, file_uri |-> name]

\* the request client.models.generate_content(...) sends
GenerationRequest(contents) ==
    [model |-> MODEL_ID, contents |-> contents, temperature |-> "0.3",
     max_output_tokens |-> max_output_tokens,
     file_search_store_names |-> <<ACTIVE_STORE_NAME>>]

\* utils.py:332-333: `contents = question`; the line that would prepend
\* file_parts is commented out
DirectContents(question, file_parts) == <<TextPart(question)>>

\* response.text returned as it came
NormalizeAnswer_raw(text, substitute) == IF text.some THEN text.v ELSE <<>>

\* (response.text or "").strip(), with the fixed substitute when empty
NormalizeAnswer(text, substitute) ==
    LET answer == Strip(IF text.some THEN text.v ELSE <<>>)
    IN  IF answer = <<>> THEN substitute ELSE answer

\* the early return left out
MustDegrade_never(file_parts) == FALSE

\* utils.py:324: `if not file_parts`
MustDegrade(file_parts) == file_parts = <<>>

\* a record that cannot be attached empties the whole list of parts
FileParts_all_or_nothing(docs, fetchable) ==
    IF \E i \in 1..Len(docs) :
          ~HasRef(docs[i]) \/ docs[i].gemini_file_name \notin fetchable
    THEN <<>>
    ELSE [i \in 1..Len(docs) |-> FilePart(docs[i].gemini_file_name)]

\* utils.py:307-322: a record without gemini_file_name is skipped, and so
\* is one whose client.files.get raises (caught inside the loop)
FileParts(docs, fetchable) ==
    LET got == SelectSeq(docs,
                 LAMBDA d : HasRef(d) /\ d.gemini_file_name \in fetchable)
    IN  [i \in 1..Len(got) |-> FilePart(got[i].gemini_file_name)]

\* an exception of generate_content caught, the answer built from no text
GenerationFails_swallowed(gen) == FALSE

\* utils.py:345-359, 373-387: generate_content is called outside any
\* try/except, so its exception leaves the resolver
GenerationFails(gen) == gen.raises

\* no generate_content call was made
NoGen == [raises |-> FALSE, text |-> None]

\* utils.py:301-364.  fetchOk: the hosted names client.files.get can fetch
\* (it also fails for a name that is no longer hosted); gen: the outcome of
\* generate_content
_ask_with_file_refs(question, docs, fetchOk, gen) ==
    LET withRef == SelectSeq(docs, HasRef)
        fetchable == fetchOk \cap hostedFiles
        file_parts == FileParts(docs, fetchable)
        fetched == {withRef[i].gemini_file_name : i \in 1..Len(withRef)}
                       \cap fetchable
        fcalls == IF withRef # <<>> THEN {"files.get"} ELSE {}
        request == GenerationRequest(DirectContents(question, file_parts))
    IN  IF MustDegrade(file_parts)
        THEN [raised |-> "none", answer |-> DEGRADED_ANSWER, grounding |-> "direct",
              file_parts |-> file_parts, requests |-> <<>>, calls |-> fcalls,
              fetched |-> fetched, gen |-> NoGen]
        ELSE IF GenerationFails(gen)
        THEN [raised |-> "Upstream", answer |-> <<>>, grounding |-> "direct",
              file_parts |-> file_parts, requests |-> <<request>>,
              calls |-> fcalls \cup {"models.generate_content"},
              fetched |-> fetched, gen |-> gen]
        ELSE [raised |-> "none",
              answer |-> NormalizeAnswer(gen.text, NO_EXTRACT_ANSWER),
              grounding |-> "direct",
              file_parts |-> file_parts, requests |-> <<request>>,
              calls |-> fcalls \cup {"models.generate_content"},
              fetched |-> fetched, gen |-> gen]

\* utils.py:367-395
_ask_global(question, gen) ==
    LET request == GenerationRequest(<<TextPart(question)>>)
    IN  IF GenerationFails(gen)
        THEN [raised |-> "Upstream", answer |-> <<>>, grounding |-> "global",
              file_parts |-> <<>>, requests |-> <<request>>,
              calls |-> {"models.generate_content"},
              fetched |-> {}, gen |-> gen]
        ELSE [raised |-> "none",
              answer |-> NormalizeAnswer(gen.text, NO_INFO_ANSWER),
              grounding |-> "global",
              file_parts |-> <<>>, requests |-> <<request>>,
              calls |-> {"models.generate_content"},
              fetched |-> {}, gen |-> gen]

\* the sort ascending: the record uploaded first
_get_latest_upload_oldest ==
    LET cands == SelectSeq(catalog,
                   LAMBDA d : d.status = "active" /\ Has(d, "gemini_file_name"))
    IN  IF cands = <<>> THEN None ELSE Some(cands[1])

\* utils.py:290-298: active, gemini_file_name present, greatest uploaded_at
_get_latest_upload ==
    LET cands == SelectSeq(catalog,
                   LAMBDA d : d.status = "active" /\ Has(d, "gemini_file_name"))
    IN  IF cands = <<>> THEN None
        ELSE Some(cands[CHOOSE i \in 1..Len(cands) :
                    \A j \in 1..Len(cands) :
                        \/ cands[j].uploaded_at < cands[i].uploaded_at
                        \/ (cands[j].uploaded_at = cands[i].uploaded_at /\ i <= j)])

\* the branches tested in another order: the search-all flag first
ScopeOf_all_first(file_ids, file_urls, search_all) ==
    IF search_all THEN "all"
    ELSE IF Truthy(file_ids) THEN "ids"
    ELSE IF Truthy(file_urls) THEN "urls"
    ELSE "default"

\* which branch of utils.py:255-287 is taken
ScopeOf(file_ids, file_urls, search_all) ==
    IF Truthy(file_ids) THEN "ids"
    ELSE IF Truthy(file_urls) THEN "urls"
    ELSE IF search_all THEN "all"
    ELSE "default"

SeqToSet(q) == {q[i] : i \in 1..Len(q)}

\* only the first id converted before the lookup
IdsRejected_first_only(ids) == ~IsValidObjectId(ids[1])

\* utils.py:257-260: [ObjectId(fid) for fid in file_ids] raises on the
\* first malformed id, before kb_collection.find
IdsRejected(ids) == \E i \in 1..Len(ids) : ~IsValidObjectId(ids[i])

\* utils.py:240-287.  file_ids, file_urls: Optional lists of strings
ask_question_to_knowledge_base(question, file_ids, file_urls, search_all, fetchOk, gen) ==
    LET scope == ScopeOf(file_ids, file_urls, search_all)
        withScope(r, docs, extra) ==
            [raised |-> r.raised, answer |-> r.answer, grounding |-> r.grounding,
             file_parts |-> r.file_parts, requests |-> r.requests,
             fetched |-> r.fetched, gen |-> r.gen,
             calls |-> r.calls \cup extra, scope |-> scope,
             docs |-> [i \in 1..Len(docs) |-> docs[i]._id]]
    IN  CASE scope = "ids" ->
               IF IdsRejected(file_ids.v)
               THEN [raised |-> "ValueError", answer |-> <<>>, grounding |-> "none",
                     file_parts |-> <<>>, requests |-> <<>>,
                     fetched |-> {}, gen |-> NoGen, calls |-> {},
                     scope |-> scope, docs |-> <<>>]
               ELSE LET docs == SelectSeq(catalog,
                                  LAMBDA d : d._id \in SeqToSet(file_ids.v))
                    IN  withScope(_ask_with_file_refs(question, docs, fetchOk, gen),
                                  docs, {"mongo.find"})
          [] scope = "urls" ->
               LET docs == SelectSeq(catalog,
                             LAMBDA d : /\ Has(d, "gcp_link")
                                        /\ d.gcp_link \in SeqToSet(file_urls.v))
               IN  withScope(_ask_with_file_refs(question, docs, fetchOk, gen),
                             docs, {"mongo.find"})
          [] scope = "all" -> withScope(_ask_global(question, gen), <<>>, {})
          [] OTHER ->
               LET latest == _get_latest_upload
               IN  IF latest.some
                   THEN withScope(
                          _ask_with_file_refs(question, <<latest.v>>, fetchOk, gen),
                          <<latest.v>>, {"mongo.find"})
                   ELSE withScope(_ask_global(question, gen), <<>>, {"mongo.find"})

\* ---------------------------------------------------------------- chat log
MaxTurns == 2         \* chat turns saved in one behaviour

TitleMax == 35            \* main.py:390-391
PreviewQuestionMax == 37  \* main.py:396
PreviewMax == 45          \* main.py:397-398

\* In the chat log every atom of a string is one character, so Len is len().
\* n characters that are not whitespace
Chars(n) == [i \in 1..n |-> "x"]

\* the character U+2026
Ellipsis == "U+2026"
NEW_CHAT == <<"N", "e", "w", WS, "c", "h", "a", "t">>
YOU_PREFIX == <<"Y", "o", "u", ":", WS>>

\* blank; 2 characters; 35 characters between two blanks; 36; 50
ChatQuestions ==
    {<<WS>>, <<"h", "i">>, <<WS>> \o Chars(TitleMax) \o <<WS>>,
     Chars(TitleMax + 1), Chars(TitleMax + 15)}
ChatAnswers == {<<>>, <<"o", "k">>}
ConversationIds == {Some(<<>>), Some(<<"c1">>), Some(<<"c2">>)}

\* save_chat_turn of utils: appends one chat turn and returns its id;
\* insOk: whether the insert goes through
save_chat_turn(question, answer, source, conversation_id, chat_id, insOk) ==
    LET id == <<"turn/", ToString(Len(chat_history) + 1)>>
        turn == [id |-> id, question |-> question, answer |-> answer,
                 source |-> source, conversation_id |-> conversation_id,
                 chat_id |-> chat_id, asked_at |-> now]
    IN  IF insOk
        THEN [raised |-> FALSE, id |-> id,
              chat_history |-> Append(chat_history, turn),
              calls |-> {"mongo.insert_one"}]
        ELSE [raised |-> TRUE, id |-> <<>>, chat_history |-> chat_history,
              calls |-> {"mongo.insert_one"}]

\* ---------------------------------------------------------------- requests
\* what a handler records about the request it served
NoRequest ==
    [op |-> "none", status |-> 0, question |-> <<>>, file_ids |-> None,
     file_urls |-> None, ids_list |-> None, urls_list |-> None,
     gcs |-> "none", target |-> <<>>, id |-> <<>>, gcp_link |-> <<>>,
     answer |-> <<>>, count |-> 0, deleted |-> FALSE, found |-> FALSE,
     raised |-> "none", step |-> "none", calls |-> {}, polls |-> 0,
     waited |-> 0, import_done |-> FALSE, reg |-> "none",
     import_raised |-> FALSE, hostedFailed |-> FALSE,
     blobFailed |-> FALSE, search_all |-> FALSE, scope |-> "none",
     grounding |-> "none", docs |-> <<>>, file_parts |-> <<>>,
     fetched |-> {}, gen |-> [raises |-> FALSE, text |-> None],
     requests |-> <<>>, listing |-> <<>>]

\* no request is being served
Idle == last.op = "none"

\* the server takes the next request
Accept ==
    /\ Idle
    /\ served < MaxRequests
    /\ served' = served + 1
    /\ UNCHANGED <<deleters, file_search_stores, loaders>>

IngestApplied(r) ==
    /\ catalog' = r.catalog
    /\ blobs' = r.blobs
    /\ bucketExists' = r.bucketExists
    /\ hostedFiles' = r.hostedFiles
    /\ nextId' = r.nextId
    /\ nextFile' = nextFile + 1
    /\ now' = r.now
    /\ ingested' = IF r.raised THEN ingested
                   ELSE ingested \cup {[id |-> r.ret.id,
                                        original_filename |-> r.ret.original_filename]}

IngestRecord(op, r) ==
    [NoRequest EXCEPT !.op = op,
                      !.status = IF r.raised THEN 500 ELSE 200,
                      !.raised = IF r.raised THEN "Upstream" ELSE "none",
                      !.step = r.step, !.gcs = r.gcs, !.reg = r.reg,
                      !.import_raised = r.import_raised, !.id = r.ret.id,
                      !.gcp_link = r.ret.gcp_link,
                      !.target = r.ret.original_filename,
                      !.calls = r.calls, !.polls = r.polls,
                      !.waited = r.waited, !.import_done = r.import_done]

DisplayNames == {None}

\* POST /upload, main.py:113-144
upload_to_kb ==
    /\ Accept
    /\ nextFile < MaxDocs
    /\ \E filename \in Filenames, display_name \in DisplayNames,
          gcs \in GcsOutcomes, reg \in {"ok", "fails"},
          imp \in ImportOutcomes, ins \in {"ok", "fails"} :
        LET dn == IF Truthy(display_name) THEN display_name ELSE Some(filename)
            r == upload_document_to_knowledge_base(filename, dn, gcs, reg, imp, ins)
        IN  /\ IngestApplied(r)
            /\ last' = [IngestRecord("upload", r) EXCEPT !.target = filename]
    /\ UNCHANGED <<chat_history, history, ACTIVE_STORE_NAME, removed>>

\* GET /list, main.py:147-173
list_files ==
    /\ Accept
    /\ last' = [NoRequest EXCEPT !.op = "list", !.status = 200,
                                 !.calls = {"mongo.find"},
                                 !.listing = list_knowledge_base_files(catalog)]
    /\ UNCHANGED <<catalog, blobs, bucketExists, hostedFiles, chat_history, history,
                   ACTIVE_STORE_NAME, now, nextId, nextFile, ingested, removed>>

\* POST /upload-and-ask, main.py:176-217.  The ask is called with a keyword
\* `source` that ask_question_to_knowledge_base (utils.py:240-245) does not
\* take, so the call raises TypeError before its body runs.
upload_and_ask ==
    /\ Accept
    /\ \E question \in Questions :
        IF Strip(question) = <<>>
        THEN /\ last' = [NoRequest EXCEPT !.op = "upload-and-ask",
                                          !.status = 400, !.question = question,
                                          !.raised = "HTTP400"]
             /\ UNCHANGED <<catalog, blobs, bucketExists, hostedFiles,
                            chat_history, history, ACTIVE_STORE_NAME, now, nextId,
                            nextFile, ingested, removed>>
        ELSE /\ nextFile < MaxDocs
             /\ \E filename \in Filenames, gcs \in GcsOutcomes,
                   reg \in {"ok", "fails"}, imp \in ImportOutcomes,
                   ins \in {"ok", "fails"} :
                 LET r == upload_document_to_knowledge_base(
                              filename, Some(filename), gcs, reg, imp, ins)
                     rec == [IngestRecord("upload-and-ask", r)
                                EXCEPT !.question = question, !.target = filename]
                 IN  /\ IngestApplied(r)
                     /\ last' = IF r.raised THEN rec
                                ELSE [rec EXCEPT !.status = 500,
                                                 !.raised = "TypeError",
                                                 !.scope = "none"]
             /\ UNCHANGED <<chat_history, history, ACTIVE_STORE_NAME, removed>>

\* a well-formed id that no document has
UnknownId == <<OidPrefix, "f">>
UnknownUrl == GcsUrl(<<"kb/", "0", "_", "gone.pdf">>)

\* ",".join of the ids of the records, a blank after each comma
RECURSIVE JoinIds(_)
JoinIds(docs) ==
    IF docs = <<>> THEN <<>>
    ELSE IF Len(docs) = 1 THEN docs[1]._id
    ELSE docs[1]._id \o <<COMMA, WS>> \o JoinIds(Tail(docs))

\* values of the form field file_ids a caller may send
FileIdsMenu ==
    LET ids == Ids(catalog)
        firsts == IF catalog = <<>> THEN {} ELSE {catalog[1]._id}
    IN  {None, Some(<<COMMA>>), Some(<<WS, "ALL", WS>>), Some(<<"zz">>),
         Some(UnknownId)}
        \cup {Some(i) : i \in ids}
        \cup (IF Len(catalog) >= 2 THEN {Some(JoinIds(catalog))} ELSE {})
        \cup {Some(i \o <<COMMA>> \o <<"zz">>) : i \in firsts}

\* values of the form field file_urls a caller may send
FileUrlsMenu ==
    LET urls == {catalog[i].gcp_link : i \in {j \in 1..Len(catalog) :
                                                Has(catalog[j], "gcp_link")}}
    IN  {None, Some(<<WS, COMMA>>), Some(UnknownUrl)}
        \cup {Some(u \o <<COMMA>> \o UnknownUrl) : u \in urls}

\* the pairs of form fields (file_ids, file_urls) a caller may send: every
\* file_ids alone, and every file_urls alone, with the token "all" and with
\* the id of the newest record
KbAskForms ==
    LET newest == IF catalog = <<>> THEN {}
                  ELSE {Some(catalog[Len(catalog)]._id)}
    IN  {[file_ids |-> i, file_urls |-> None] : i \in FileIdsMenu}
        \cup {[file_ids |-> i, file_urls |-> u] :
                i \in {None, Some(<<WS, "ALL", WS>>)} \cup newest,
                u \in FileUrlsMenu}

\* main.py:253-260
SelectedCount(search_all, ids_list, urls_list) ==
    IF search_all THEN Len(list_knowledge_base_files(catalog))
    ELSE IF Truthy(ids_list) THEN Len(ids_list.v)
    ELSE IF Truthy(urls_list) THEN Len(urls_list.v)
    ELSE 1

\* main.py:239
IsSearchAll(file_ids) ==
    Truthy(file_ids) /\ Lower(Strip(file_ids.v)) = <<"all">>

\* main.py:242
IdsList(file_ids, search_all) ==
    IF Truthy(file_ids) /\ ~search_all THEN Some(ParseCsv(file_ids.v)) ELSE None

\* main.py:243
UrlsList(file_urls) ==
    IF Truthy(file_urls) THEN Some(ParseCsv(file_urls.v)) ELSE None

\* main.py:267-268: the status kb_ask gives an exception of the resolver
KbAskErrorStatus(raised) == 500

AskRecord(op, question, r) ==
    [NoRequest EXCEPT !.op = op, !.question = question, !.scope = r.scope,
                      !.grounding = r.grounding, !.docs = r.docs,
                      !.file_parts = r.file_parts, !.requests = r.requests,
                      !.fetched = r.fetched, !.gen = r.gen,
                      !.raised = r.raised, !.answer = r.answer,
                      !.calls = r.calls]

\* POST /kb-ask, main.py:220-268
kb_ask ==
    /\ Accept
    /\ \E question \in Questions :
        IF Strip(question) = <<>>
        THEN last' = [NoRequest EXCEPT !.op = "kb-ask", !.question = question,
                                       !.status = 400, !.raised = "HTTP400"]
        ELSE \E form \in KbAskForms, fetchOk \in SUBSET hostedFiles,
                gen \in GenOutcomes :
               LET file_ids == form.file_ids
                   file_urls == form.file_urls
                   search_all == IsSearchAll(file_ids)
                   ids_list == IdsList(file_ids, search_all)
                   urls_list == UrlsList(file_urls)
                   r == ask_question_to_knowledge_base(
                            question, ids_list, urls_list, search_all, fetchOk, gen)
               IN  last' = [AskRecord("kb-ask", question, r) EXCEPT
                      !.file_ids = file_ids, !.file_urls = file_urls,
                      !.ids_list = ids_list, !.urls_list = urls_list,
                      !.search_all = search_all,
                      !.status = IF r.raised = "none" THEN 200
                                 ELSE KbAskErrorStatus(r.raised),
                      !.count = IF r.raised = "none"
                                THEN SelectedCount(search_all, ids_list, urls_list)
                                ELSE 0,
                      !.calls = r.calls \cup
                                (IF r.raised = "none" /\ search_all
                                 THEN {"mongo.find"} ELSE {})]
    /\ UNCHANGED <<catalog, blobs, bucketExists, hostedFiles, chat_history, history,
                   ACTIVE_STORE_NAME, now, nextId, nextFile, ingested, removed>>

\* a caller of utils.ask_question_to_knowledge_base other than the two
\* handlers: any combination of its three optional arguments
ask_question_call ==
    /\ Accept
    /\ \E file_ids \in {None} \cup {Some(<<i>>) : i \in Ids(catalog)}
                        \cup {Some(<<i, <<"zz">>>>) : i \in Ids(catalog)},
          file_urls \in {None, Some(<<UnknownUrl>>)},
          search_all \in BOOLEAN,
          fetchOk \in SUBSET hostedFiles, gen \in GenOutcomes :
        LET question == <<"why?">>
            r == ask_question_to_knowledge_base(
                     question, file_ids, file_urls, search_all, fetchOk, gen)
        IN  last' = [AskRecord("ask", question, r) EXCEPT
                       !.ids_list = file_ids, !.urls_list = file_urls,
                       !.search_all = search_all]
    /\ UNCHANGED <<catalog, blobs, bucketExists, hostedFiles, chat_history, history,
                   ACTIVE_STORE_NAME, now, nextId, nextFile, ingested, removed>>

\* POST /save-chat-turn, main.py:305-321; the clock has moved on since the
\* turn before
save_chat_turn_endpoint ==
    /\ Accept
    /\ Len(chat_history) < MaxTurns
    /\ \E question \in ChatQuestions, answer \in ChatAnswers,
          conversation_id \in ConversationIds, insOk \in BOOLEAN :
        LET r == save_chat_turn(question, answer, <<"pdf">>, conversation_id,
                                None, insOk)
        IN  /\ chat_history' = r.chat_history
            /\ last' = [NoRequest EXCEPT
                          !.op = "save-chat-turn", !.question = question,
                          !.status = IF r.raised THEN 500 ELSE 200,
                          !.raised = IF r.raised THEN "Upstream" ELSE "none",
                          !.id = r.id, !.calls = r.calls]
    /\ now' = now + 1
    /\ UNCHANGED <<catalog, blobs, bucketExists, hostedFiles, history,
                   ACTIVE_STORE_NAME, nextId, nextFile, ingested, removed>>

\* s[:n] + "\u2026" if len(s) > n else s, with >= in place of >
Truncate_inclusive(s, n) ==
    IF Len(s) >= n THEN SubSeq(s, 1, n) \o <<Ellipsis>> ELSE s

\* main.py:390-391, 396, 397-398: s[:n] + "\u2026" if len(s) > n else s
Truncate(s, n) ==
    IF Len(s) > n THEN SubSeq(s, 1, n) \o <<Ellipsis>> ELSE s

\* main.py:389-393; first_question: Optional[str]
ConversationTitle(first_question) ==
    LET title == Truncate(Strip(IF first_question.some THEN first_question.v
                                ELSE <<>>), TitleMax)
    IN  IF title = <<>> THEN NEW_CHAT ELSE title

\* main.py:394-398
ConversationPreview(last_question, last_answer) ==
    LET last_q == Strip(IF last_question.some THEN last_question.v ELSE <<>>)
        last_a == Strip(IF last_answer.some THEN last_answer.v ELSE <<>>)
        preview == IF last_a # <<>> THEN last_a
                   ELSE YOU_PREFIX \o Truncate(last_q, PreviewQuestionMax)
    IN  Truncate(preview, PreviewMax)

\* {"$sort": {key: 1}}: a stable insertion sort of records by rec[key]
RECURSIVE InsertBy(_, _, _)
InsertBy(sorted, rec, key) ==
    IF sorted = <<>> THEN <<rec>>
    ELSE IF rec[key] < Head(sorted)[key] THEN <<rec>> \o sorted
    ELSE <<Head(sorted)>> \o InsertBy(Tail(sorted), rec, key)

RECURSIVE SortAsc(_, _)
SortAsc(recs, key) ==
    IF recs = <<>> THEN <<>>
    ELSE InsertBy(SortAsc(SubSeq(recs, 1, Len(recs) - 1), key),
                  recs[Len(recs)], key)

Reverse(q) == [i \in 1..Len(q) |-> q[Len(q) + 1 - i]]

\* the $group stage of main.py:373-382 over the turns, already sorted by
\* asked_at, of one conversation
GroupRow(conversation_id, turns) ==
    [_id |-> conversation_id,
     first_question |-> Some(turns[1].question),
     last_question |-> Some(turns[Len(turns)].question),
     last_answer |-> Some(turns[Len(turns)].answer),
     timestamp |-> CHOOSE m \in {turns[i].asked_at : i \in 1..Len(turns)} :
                       \A i \in 1..Len(turns) : turns[i].asked_at <= m,
     message_count |-> Len(turns)]

\* the conversation ids of the turns, in order of first appearance
RECURSIVE GroupKeys(_, _)
GroupKeys(turns, seen) ==
    IF turns = <<>> THEN <<>>
    ELSE IF Head(turns).conversation_id.v \in seen
         THEN GroupKeys(Tail(turns), seen)
         ELSE <<Head(turns).conversation_id.v>>
                \o GroupKeys(Tail(turns),
                             seen \cup {Head(turns).conversation_id.v})

\* main.py:370-385: $match, $sort asked_at, $group, $sort timestamp desc,
\* $limit
ConversationRows(turns, limit) ==
    LET matched == SelectSeq(turns,
                     LAMBDA t : t.conversation_id.some /\ t.conversation_id.v # <<>>)
        sorted == SortAsc(matched, "asked_at")
        keys == GroupKeys(sorted, {})
        rows == [i \in 1..Len(keys) |->
                   GroupRow(keys[i],
                            SelectSeq(sorted,
                              LAMBDA t : t.conversation_id.v = keys[i]))]
        newestFirst == Reverse(SortAsc(rows, "timestamp"))
    IN  SubSeq(newestFirst, 1, IF Len(newestFirst) < limit
                                THEN Len(newestFirst) ELSE limit)

\* main.py:387-405
ConversationSummary(row) ==
    [id |-> row._id, title |-> ConversationTitle(row.first_question),
     preview |-> ConversationPreview(row.last_question, row.last_answer),
     timestamp |-> row.timestamp, message_count |-> row.message_count]

\* GET /conversations, main.py:362-408
get_conversations ==
    /\ Accept
    /\ \E limit \in {1, 50} :
        LET rows == ConversationRows(chat_history, limit)
        IN  last' = [NoRequest EXCEPT
                       !.op = "conversations", !.status = 200,
                       !.calls = {"mongo.aggregate"},
                       !.listing = [i \in 1..Len(rows) |->
                                      ConversationSummary(rows[i])]]
    /\ UNCHANGED <<catalog, blobs, bucketExists, hostedFiles, chat_history,
                   history, ACTIVE_STORE_NAME, now, nextId, nextFile, ingested,
                   removed>>

\* what a caller may pass to DELETE /delete/{doc_id}
DeleteTargets ==
    Ids(catalog) \cup removed \cup {UnknownId} \cup Filenames
        \cup {LegacyDoc.original_filename}

\* DELETE /delete/{doc_id}, main.py:440-450
delete_file ==
    /\ Accept
    /\ \E doc_id \in DeleteTargets, hostedOk \in BOOLEAN, blobOk \in BOOLEAN,
          rowOk \in BOOLEAN :
        LET r == delete_document_from_knowledge_base(doc_id, hostedOk, blobOk, rowOk)
        IN  /\ catalog' = r.catalog
            /\ blobs' = r.blobs
            /\ hostedFiles' = r.hostedFiles
            /\ removed' = IF r.ret THEN removed \cup {r.doc_id} ELSE removed
            /\ last' = [NoRequest EXCEPT
                          !.op = "delete", !.target = doc_id,
                          !.status = IF r.raised THEN 500
                                     ELSE IF r.ret THEN 200 ELSE 404,
                          !.raised = IF r.raised THEN "Upstream" ELSE "none",
                          !.deleted = r.ret, !.found = r.found,
                          !.step = IF r.rowFailed THEN "delete_one" ELSE "none",
                          !.id = r.doc_id, !.calls = r.calls,
                          !.hostedFailed = r.hostedFailed,
                          !.blobFailed = r.blobFailed]
    /\ UNCHANGED <<bucketExists, chat_history, history, ACTIVE_STORE_NAME, now, nextId,
                   nextFile, ingested>>

\* the response of the request served last is sent; the server is idle again
respond ==
    /\ ~Idle
    /\ last' = NoRequest
    /\ UNCHANGED <<catalog, blobs, bucketExists, hostedFiles, chat_history, history,
                   ACTIVE_STORE_NAME, now, served, nextId, nextFile, ingested,
                   removed, deleters, file_search_stores, loaders>>

\* ------------------------------------------- deletes served side by side
\* Several server processes share the catalog, the bucket and the hosted
\* File API.  Each worker serves one DELETE /delete/{doc_id}; the steps of
\* delete_document_from_knowledge_base are the calls it makes to the shared
\* stores, and the calls of different workers interleave.
Workers == 1..MaxWorkers

IdleDeleter ==
    [pc |-> "idle", target |-> <<>>, doc |-> None, ret |-> "none",
     removedRow |-> FALSE]

WorkerTargets == Ids(catalog) \cup removed \cup {UnknownId}

\* utils.py:206-214: find_one(query); return False when nothing matches
delete_find_one(w) ==
    /\ deleters[w].pc = "idle"
    /\ \E t \in WorkerTargets :
        LET found == FindTarget(catalog, t)
        IN  deleters' = [deleters EXCEPT ![w] =
                IF found.some
                THEN [IdleDeleter EXCEPT !.pc = "files.delete", !.target = t,
                                         !.doc = found]
                ELSE [IdleDeleter EXCEPT !.pc = "done", !.target = t,
                                         !.ret = "false"]]
    /\ UNCHANGED <<catalog, blobs, bucketExists, hostedFiles, chat_history,
                   history, ACTIVE_STORE_NAME, now, served, nextId, nextFile,
                   last, ingested, removed, file_search_stores, loaders>>

\* utils.py:216-222: client.files.delete inside try/except
delete_hosted_file(w) ==
    /\ deleters[w].pc = "files.delete"
    /\ \E hostedOk \in BOOLEAN :
        LET doc == deleters[w].doc.v
        IN  hostedFiles' = IF Has(doc, "gemini_file_name") /\ hostedOk
                           THEN hostedFiles \ {doc.gemini_file_name}
                           ELSE hostedFiles
    /\ deleters' = [deleters EXCEPT ![w].pc = "blob.delete"]
    /\ UNCHANGED <<catalog, blobs, bucketExists, chat_history, history,
                   ACTIVE_STORE_NAME, now, served, nextId, nextFile, last,
                   ingested, removed, file_search_stores, loaders>>

\* utils.py:224-232: get_bucket and blob.delete inside try/except
delete_blob(w) ==
    /\ deleters[w].pc = "blob.delete"
    /\ \E blobOk \in BOOLEAN :
        LET doc == deleters[w].doc.v
        IN  blobs' = IF Has(doc, "gcp_link") /\ blobOk /\ bucketExists
                     THEN {b \in blobs : b.name # BlobNameOfUrl(doc.gcp_link)}
                     ELSE blobs
    /\ deleters' = [deleters EXCEPT ![w].pc = "delete_one"]
    /\ UNCHANGED <<catalog, bucketExists, hostedFiles, chat_history, history,
                   ACTIVE_STORE_NAME, now, served, nextId, nextFile, last,
                   ingested, removed, file_search_stores, loaders>>

\* utils.py:234-237: delete_one, its result dropped, then return True.
\* removedRow: the row was in the catalog when this delete_one ran.
delete_row(w) ==
    /\ deleters[w].pc = "delete_one"
    /\ \E rowOk \in BOOLEAN :
        LET id == deleters[w].doc.v._id
            wasThere == id \in Ids(catalog)
        IN  IF DeleteRaises(FALSE, FALSE, rowOk)
            THEN /\ deleters' = [deleters EXCEPT ![w].pc = "done",
                                                 ![w].ret = "raised"]
                 /\ UNCHANGED <<catalog, removed>>
            ELSE /\ catalog' = DeleteOne(catalog, id)
                 /\ removed' = IF wasThere THEN removed \cup {id} ELSE removed
                 /\ deleters' = [deleters EXCEPT ![w].pc = "done",
                                                 ![w].ret = "true",
                                                 ![w].removedRow = wasThere]
    /\ UNCHANGED <<blobs, bucketExists, hostedFiles, chat_history, history,
                   ACTIVE_STORE_NAME, now, served, nextId, nextFile, last,
                   ingested, file_search_stores, loaders>>

\* --------------------------------------- processes loading utils.py
\* Each process runs ensure_file_search_store_exists once, at utils.py:400;
\* the list call and the create call are separate requests to the hosted
\* account, and those of different processes interleave.
Procs == 1..MaxProcs

NotLoaded == [pc |-> "start", name |-> <<>>, failed |-> FALSE]

StoreResource(i) == <<"fileSearchStores/", ToString(i)>>

\* the value the call returns is bound to the module's ACTIVE_STORE_NAME;
\* process 1 is the one whose endpoints are modelled above
Returned(p, name, failed) ==
    /\ loaders' = [loaders EXCEPT ![p] =
                      [pc |-> "done", name |-> name, failed |-> failed]]
    /\ ACTIVE_STORE_NAME' = IF p = 1 THEN name ELSE ACTIVE_STORE_NAME

\* utils.py:71-76 and 85-88: list the stores and return the first one with
\* the target display name; an exception returns STORE_NAME
store_list(p) ==
    /\ loaders[p].pc = "start"
    /\ \E listFails \in BOOLEAN :
        IF listFails THEN Returned(p, STORE_NAME, TRUE)
        ELSE IF \E i \in 1..Len(file_search_stores) :
                    file_search_stores[i] = display_name_target
        THEN Returned(p, ensure_file_search_store_exists(
                             file_search_stores, FALSE).name, FALSE)
        ELSE /\ loaders' = [loaders EXCEPT ![p].pc = "create"]
             /\ UNCHANGED ACTIVE_STORE_NAME
    /\ UNCHANGED <<catalog, blobs, bucketExists, hostedFiles, chat_history,
                   history, now, served, nextId, nextFile, last, ingested,
                   removed, deleters, file_search_stores>>

\* utils.py:78-88: no store was listed with the target name: create one and
\* return its name; an exception returns STORE_NAME
store_create(p) ==
    /\ loaders[p].pc = "create"
    /\ \E createFails \in BOOLEAN :
        IF createFails
        THEN /\ Returned(p, STORE_NAME, TRUE)
             /\ UNCHANGED file_search_stores
        ELSE /\ file_search_stores' = Append(file_search_stores, display_name_target)
             /\ Returned(p, StoreResource(Len(file_search_stores) + 1), FALSE)
    /\ UNCHANGED <<catalog, blobs, bucketExists, hostedFiles, chat_history,
                   history, now, served, nextId, nextFile, last, ingested,
                   removed, deleters>>

\* ------------------------------------------------------------ specification
\* The process has loaded utils.py: ACTIVE_STORE_NAME is resolved against a
\* hosted account that held no store yet; the catalog holds one record of an
\* earlier version of the service (a delete empties it).
InitService ==
    /\ catalog = <<LegacyDoc>>
    /\ blobs = {}
    /\ bucketExists = FALSE
    /\ hostedFiles = {}
    /\ chat_history = <<>>
    /\ history = <<>>
    /\ now = 0
    /\ served = 0
    /\ nextId = 1
    /\ nextFile = 0
    /\ last = NoRequest
    /\ ingested = {}
    /\ removed = {}
    /\ deleters = [w \in Workers |-> IdleDeleter]

Init ==
    /\ InitService
    /\ ACTIVE_STORE_NAME = ensure_file_search_store_exists(<<>>, FALSE).name
    /\ file_search_stores = ensure_file_search_store_exists(<<>>, FALSE).stores
    /\ loaders = [p \in Procs |->
                    IF p = 1
                    THEN [pc |-> "done", failed |-> FALSE,
                          name |-> ensure_file_search_store_exists(<<>>, FALSE).name]
                    ELSE NotLoaded]

\* The knowledge-base endpoints and the chat-log endpoints share no state
\* but the clock: the former never read or write chat_history, the latter
\* touch nothing else.  Each group is a specification of its own.
Next ==
    \/ upload_to_kb
    \/ list_files
    \/ upload_and_ask
    \/ kb_ask
    \/ delete_file
    \/ respond

\* the knowledge-base endpoints of the HTTP service
Spec == Init /\ [][Next]_vars

\* the knowledge-base endpoints, and utils.py called directly
NextApi == Next \/ ask_question_call

SpecApi == Init /\ [][NextApi]_vars

NextChat ==
    \/ save_chat_turn_endpoint
    \/ get_conversations
    \/ respond

\* the chat-log endpoints of the HTTP service
SpecChat == Init /\ [][NextChat]_vars

\* two workers serving deletes while ingests are served
NextDelete ==
    \/ upload_to_kb
    \/ respond
    \/ \E w \in Workers : delete_find_one(w)
    \/ \E w \in Workers : delete_hosted_file(w)
    \/ \E w \in Workers : delete_blob(w)
    \/ \E w \in Workers : delete_row(w)

SpecDelete == Init /\ [][NextDelete]_vars

\* hosted accounts a deployment can start from
InitialStores == {<<>>, <<OTHER_STORE>>, <<display_name_target>>}

\* no process has loaded utils.py yet
InitStore ==
    /\ InitService
    /\ ACTIVE_STORE_NAME = <<>>
    /\ file_search_stores \in InitialStores
    /\ loaders = [p \in Procs |-> NotLoaded]

NextStore ==
    \/ \E p \in Procs : store_list(p)
    \/ \E p \in Procs : store_create(p)

\* the processes of a deployment starting up
SpecStore == InitStore /\ [][NextStore]_vars

\* ------------------------------------------------------------------ claims
IsAsk == last.op \in {"kb-ask", "ask"} /\ last.raised # "HTTP400"

Listed(listing, p) ==
    \E i \in 1..Len(listing) :
        /\ listing[i].id = p.id
        /\ listing[i].original_filename = p.original_filename

\* C1: once an ingest has returned id X for original_filename F, every
\* listing taken while no delete has removed X holds a record with id X and
\* original_filename F.
C1_IngestedIsListed ==
    \A p \in ingested :
        p.id \notin removed =>
            /\ Listed(list_knowledge_base_files(catalog), p)
            /\ (last.op = "list" => Listed(last.listing, p))

C1_Witness ==
    /\ last.op = "list"
    /\ \E p \in ingested : p.id \notin removed /\ Listed(last.listing, p)

\* C2: whenever the resolver is given a non-empty list of ids it takes the
\* by-ids branch, whatever the search-all flag and the URL list are: it never
\* grounds globally, and when the ids are well formed it grounds directly on
\* exactly the catalog records with those ids.
C2_IdsWin ==
    (IsAsk /\ Truthy(last.ids_list)) =>
        /\ last.scope = "ids"
        /\ last.grounding # "global"
        /\ (\A i \in 1..Len(last.ids_list.v) : IsValidObjectId(last.ids_list.v[i]))
              => /\ last.grounding = "direct"
                 /\ SeqToSet(last.docs) = SeqToSet(last.ids_list.v) \cap Ids(catalog)

C2_Witness ==
    /\ IsAsk /\ Truthy(last.ids_list) /\ Truthy(last.urls_list)
    /\ last.search_all
    /\ last.grounding = "direct"
    /\ last.docs # <<>>

\* C3: a POST /kb-ask whose file_ids is the token "all" is answered with
\* global grounding and reports the number of active catalog records,
\* whatever file_urls holds.
C3_AllIsGlobal ==
    (last.op = "kb-ask" /\ last.status = 200 /\ IsSearchAll(last.file_ids)) =>
        /\ last.grounding = "global"
        /\ last.count = Len(list_knowledge_base_files(catalog))

\* C4: the generation request of a direct-reference ask carries the fetched
\* file handles as content parts, so it differs from the global request for
\* the same question.
C4_RequestCarriesHandles ==
    (IsAsk /\ last.grounding = "direct" /\ last.requests # <<>>) =>
        /\ last.requests[1].contents =
               last.file_parts \o <<TextPart(last.question)>>
        /\ last.requests[1] # GenerationRequest(<<TextPart(last.question)>>)

\* C5: a direct-reference ask left with zero file parts returns the fixed
\* degradation string, raises nothing and sends no generation request.
C5_DegradesWithoutRequest ==
    (IsAsk /\ last.grounding = "direct" /\ last.file_parts = <<>>) =>
        /\ last.answer = DEGRADED_ANSWER
        /\ last.raised = "none"
        /\ last.requests = <<>>
        /\ "models.generate_content" \notin last.calls
        /\ (last.op = "kb-ask" => last.status = 200)

\* a resolved record has a hosted reference, and it could not be fetched
C5_Witness ==
    /\ last.op = "kb-ask"
    /\ last.grounding = "direct"
    /\ last.file_parts = <<>>
    /\ \E i \in 1..Len(catalog) :
          /\ catalog[i]._id \in SeqToSet(last.docs)
          /\ HasRef(catalog[i])
    /\ last.answer = DEGRADED_ANSWER

\* C6: an empty or whitespace-only question is refused with status 400 by
\* every endpoint that takes a question, before any external call.
C6_BlankQuestionRefused ==
    (/\ last.op \in {"upload-and-ask", "kb-ask", "save-chat-turn"}
     /\ Strip(last.question) = <<>>) =>
        /\ last.status = 400
        /\ last.calls = {}

\* C7: a POST /kb-ask whose file_ids holds a malformed document id ends with
\* a 4xx status.
C7_MalformedIdIs4xx ==
    (/\ last.op = "kb-ask" /\ last.raised # "HTTP400"
     /\ Truthy(last.ids_list)
     /\ \E i \in 1..Len(last.ids_list.v) : ~IsValidObjectId(last.ids_list.v[i])) =>
        last.status \in 400..499

\* C8: a delete by a well-formed id of a record in the catalog returns true
\* (unless delete_one itself raises), and a later delete by the same id
\* returns false, which DELETE /delete/{id} answers with 404.
C8_DeleteTwice ==
    [][(last'.op = "delete" /\ IsValidObjectId(last'.target)) =>
          /\ (last'.target \in Ids(catalog) /\ last'.raised = "none") =>
                /\ last'.deleted /\ last'.status = 200
                /\ last'.target \in removed'
          /\ last'.target \in removed =>
                /\ ~last'.deleted /\ last'.status = 404
                /\ last'.raised = "none"]_vars

\* the second delete of an id whose first delete returned true
C8_Witness ==
    /\ last.op = "delete" /\ IsValidObjectId(last.target)
    /\ last.target \in removed
    /\ ~last.deleted /\ last.status = 404

\* C9 as stated: a delete whose target is found raises nothing, whichever of
\* the three external deletes fails; when the hosted-file or blob delete
\* fails the row is still removed and the call returns true.
C9_DeleteNeverRaises ==
    (last.op = "delete" /\ last.found) =>
        /\ last.raised = "none"
        /\ (last.hostedFailed \/ last.blobFailed) =>
              /\ last.deleted
              /\ last.id \notin Ids(catalog)

\* C9 as amended: for a delete whose target is found, a failure of the
\* hosted-file delete and/or of the blob delete raises nothing: provided
\* delete_one goes through, the row is removed and the call returns true
\* (200).  A failure of delete_one is raised to the caller (500) and the row
\* stays.
C9_CleanupIsBestEffort ==
    (last.op = "delete" /\ last.found) =>
        /\ last.step # "delete_one" =>
              /\ last.raised = "none" /\ last.deleted /\ last.status = 200
              /\ last.id \notin Ids(catalog)
              /\ last.id \in removed
        /\ last.step = "delete_one" =>
              /\ last.raised # "none" /\ ~last.deleted /\ last.status = 500
              /\ last.id \in Ids(catalog)

\* both clean-up deletes failed and the delete still returned true
C9_Witness ==
    /\ last.op = "delete" /\ last.found
    /\ last.hostedFailed /\ last.blobFailed
    /\ last.deleted /\ last.status = 200
    /\ last.id \notin Ids(catalog)

\* C10: when the blob-store upload of an ingest fails, the request ends with
\* an error (500), neither the hosted file registration nor the index import
\* is attempted, and the catalog is left as it was.
C10_BlobFailureAborts ==
    [][(/\ last'.op \in {"upload", "upload-and-ask"}
        /\ last'.gcs \in {"bucket_fails", "upload_fails"}) =>
          /\ last'.status = 500
          /\ last'.calls \cap {"files.upload", "store.import", "operations.get",
                               "mongo.insert_one"} = {}
          /\ catalog' = catalog
          /\ hostedFiles' = hostedFiles
          /\ nextId' = nextId
          /\ ingested' = ingested]_vars

C10_Witness ==
    /\ last.op = "upload"
    /\ last.gcs = "upload_fails"
    /\ last.status = 500
    /\ "gcs.upload" \in last.calls

IsIngest == last.op \in {"upload", "upload-and-ask"} /\ last.gcs # "none"

\* the catalog records written for the local file the last ingest received
RecordsOfLastFile ==
    {i \in 1..Len(catalog) :
        catalog[i].gemini_file_name = HostedName(nextFile - 1)}

\* C11: when client.files.upload fails during an ingest, the request ends
\* with an error (500) and returns no id, no catalog record is written and
\* nothing is imported, and the blob uploaded in step 1 stays in the bucket.
C11_RegistrationFailureAborts ==
    (IsIngest /\ last.reg = "fails") =>
        /\ last.status = 500
        /\ last.id = <<>>
        /\ last.calls \cap {"store.import", "operations.get",
                            "mongo.insert_one"} = {}
        /\ RecordsOfLastFile = {}
        /\ \A p \in ingested : p.id \in Ids(catalog) \cup removed
        /\ \E b \in blobs : /\ b.content = nextFile - 1
                             /\ b.name = BlobName(now - 1, last.target)

C11_Witness ==
    /\ last.op = "upload" /\ last.reg = "fails"
    /\ last.status = 500
    /\ "files.upload" \in last.calls
    /\ \E b \in blobs : b.content = nextFile - 1
    /\ RecordsOfLastFile = {}

\* C12: when the import step of an ingest fails (the import call raises, a
\* poll raises, or the wait times out) after the blob upload and the
\* registration went through, the ingest still inserts exactly one catalog
\* record, with the blob URL and the hosted file name, and returns its id as
\* a success (unless insert_one itself fails).
C12_ImportFailureIsNotFatal ==
    (/\ IsIngest /\ last.gcs = "ok" /\ last.reg = "ok"
     /\ ~last.import_done /\ last.step # "insert") =>
        /\ last.step = "none"
        /\ last.id # <<>>
        /\ last.op = "upload" => (last.status = 200 /\ last.raised = "none")
        /\ "mongo.insert_one" \in last.calls
        /\ Cardinality(RecordsOfLastFile) = 1
        /\ \A i \in RecordsOfLastFile :
              /\ catalog[i]._id = last.id
              /\ catalog[i].original_filename = last.target
              /\ Has(catalog[i], "gcp_link") /\ catalog[i].gcp_link # <<>>
              /\ catalog[i].gcp_link = last.gcp_link
              /\ HasRef(catalog[i])
              /\ catalog[i].gemini_file_name \in hostedFiles
              /\ catalog[i].status = "active"
        /\ [id |-> last.id, original_filename |-> last.target] \in ingested

\* the wait timed out: LastPoll polls, none raised, the operation not done
C12_Witness ==
    /\ last.op = "upload" /\ last.gcs = "ok" /\ last.reg = "ok"
    /\ ~last.import_done /\ ~last.import_raised
    /\ last.polls = LastPoll /\ last.waited = max_wait
    /\ last.status = 200
    /\ \E i \in RecordsOfLastFile : catalog[i]._id = last.id

\* C13: the selected_documents_count of a successful POST /kb-ask matches
\* the scope the resolver applied: the number of ids when it resolved by
\* ids, the number of URLs when it resolved by URLs, the number of active
\* catalog records when it searched everything, and 1 in the default scope.
C13_CountMatchesScope ==
    (last.op = "kb-ask" /\ last.status = 200) =>
        last.count =
            CASE last.scope = "ids" -> Len(last.ids_list.v)
              [] last.scope = "urls" -> Len(last.urls_list.v)
              [] last.scope = "all" -> Len(list_knowledge_base_files(catalog))
              [] OTHER -> 1

\* the trimmed first questions, by asked_at, of the conversation c
FirstQuestions(c) ==
    LET mine == {i \in 1..Len(chat_history) :
                    chat_history[i].conversation_id = Some(c)}
    IN  {Strip(chat_history[i].question) :
            i \in {j \in mine : \A k \in mine :
                      chat_history[j].asked_at <= chat_history[k].asked_at}}

IsConversations == last.op = "conversations"

C14_AnswerIsRecorded ==
    (last.op \in {"kb-ask", "upload-and-ask"} /\ last.status = 200) =>
        \E i \in 1..Len(history) :
            /\ history[i].question = last.question
            /\ history[i].answer = last.answer

\* C15: a POST /upload-and-ask with a non-blank question whose ingest went
\* through is answered with status 200 and selected_documents_count 1, by an
\* ask resolved by the id of the record just ingested.
C15_UploadAndAskAnswers ==
    (/\ last.op = "upload-and-ask" /\ Strip(last.question) # <<>>
     /\ last.step = "none" /\ last.id # <<>>) =>
        /\ last.status = 200
        /\ last.count = 1
        /\ last.scope = "ids"
        /\ last.docs = <<last.id>>
        /\ last.answer # <<>>

\* the active records that carry the field gemini_file_name
DefaultCandidates ==
    {i \in 1..Len(catalog) :
        catalog[i].status = "active" /\ Has(catalog[i], "gemini_file_name")}

IsDefaultAsk == IsAsk /\ last.scope = "default"

GenCalled == "models.generate_content" \in last.calls

\* response.text is None, empty or whitespace
BlankText(text) == Strip(IF text.some THEN text.v ELSE <<>>) = <<>>

\* C17: every answer the resolver returns is non-empty and trimmed; when
\* generate_content returns, the resolver raises nothing, and when the
\* response text is empty or whitespace the answer is the fixed "could not
\* extract" string in direct-reference grounding and the fixed "couldn't find
\* relevant information" string in global grounding (an empty catalog
\* included); otherwise it is the trimmed response text.
C17_AnswerIsNormalized ==
    /\ (IsAsk /\ last.raised = "none") =>
          /\ last.answer # <<>>
          /\ Strip(last.answer) = last.answer
    /\ (IsAsk /\ GenCalled /\ ~last.gen.raises) =>
          /\ last.raised = "none"
          /\ last.op = "kb-ask" => last.status = 200
          /\ IF BlankText(last.gen.text)
             THEN /\ last.grounding = "direct" => last.answer = NO_EXTRACT_ANSWER
                  /\ last.grounding = "global" => last.answer = NO_INFO_ANSWER
             ELSE last.answer = Strip(last.gen.text.v)

\* a global ask against an empty catalog, the model answering whitespace
C17_Witness ==
    /\ last.op = "kb-ask" /\ catalog = <<>>
    /\ last.grounding = "global"
    /\ GenCalled /\ last.gen.text = Some(<<WS>>)
    /\ last.answer = NO_INFO_ANSWER /\ last.status = 200

\* C18: when generate_content raises, in direct-reference or in global
\* grounding, the resolver raises too and returns no answer, and POST /kb-ask
\* answers 500 without an answer or a count.
C18_GenerationFailurePropagates ==
    (IsAsk /\ GenCalled /\ last.gen.raises) =>
        /\ last.raised = "Upstream"
        /\ last.answer = <<>>
        /\ last.op = "kb-ask" => (last.status = 500 /\ last.count = 0)

C18_Witness ==
    /\ last.op = "kb-ask" /\ GenCalled /\ last.gen.raises
    /\ last.grounding = "direct" /\ last.file_parts # <<>>
    /\ last.status = 500 /\ last.answer = <<>>

\* C20: in a direct-reference ask, when the hosted handle of at least one
\* resolved record is fetched, exactly one generation request is issued with
\* one part per fetched handle, however many of the other records lack a
\* gemini_file_name or cannot be fetched; the request fails only if
\* generate_content itself raises, and otherwise an answer is returned.
C20_OneBadRecordIsSkipped ==
    (IsAsk /\ last.grounding = "direct" /\ last.fetched # {}) =>
        /\ Len(last.requests) = 1
        /\ GenCalled
        /\ {last.file_parts[i].file_uri : i \in 1..Len(last.file_parts)}
              = last.fetched
        /\ last.raised \in {"none", "Upstream"}
        /\ last.raised = "Upstream" <=> last.gen.raises
        /\ ~last.gen.raises =>
              /\ last.answer # <<>> /\ last.answer # DEGRADED_ANSWER
              /\ last.op = "kb-ask" => last.status = 200

\* three records resolved: one without gemini_file_name, one whose handle
\* cannot be fetched, one fetched
C20_Witness ==
    /\ last.op = "kb-ask" /\ last.grounding = "direct"
    /\ Cardinality(last.fetched) = 1
    /\ Len(last.docs) = 3
    /\ \E i, j \in 1..Len(catalog) :
          /\ {catalog[i]._id, catalog[j]._id} \subseteq SeqToSet(last.docs)
          /\ ~HasRef(catalog[i])
          /\ HasRef(catalog[j]) /\ catalog[j].gemini_file_name \notin last.fetched
    /\ last.status = 200 /\ Len(last.requests) = 1

\* the id list of the last ask holds a malformed id
HasMalformedId ==
    /\ Truthy(last.ids_list)
    /\ \E i \in 1..Len(last.ids_list.v) : ~IsValidObjectId(last.ids_list.v[i])

\* C21: when the id list given to the resolver holds a malformed id, alone
\* or next to well-formed ids of existing records, the resolver raises
\* before any external call: no catalog lookup, no hosted file fetch, no
\* generation request.
C21_MalformedIdNoExternalCall ==
    (IsAsk /\ HasMalformedId) =>
        /\ last.raised = "ValueError"
        /\ last.calls = {}
        /\ last.requests = <<>>
        /\ last.file_parts = <<>> /\ last.fetched = {}
        /\ last.docs = <<>>
        /\ last.answer = <<>>

\* a malformed id after the well-formed id of a record of the catalog
C21_Witness ==
    /\ last.op = "kb-ask" /\ HasMalformedId
    /\ Len(last.ids_list.v) = 2
    /\ last.ids_list.v[1] \in Ids(catalog)
    /\ last.raised = "ValueError" /\ last.calls = {}

\* the import of the last ingest was started and never reported done, and
\* no call raised
ImportTimedOut ==
    /\ IsIngest /\ "store.import" \in last.calls
    /\ ~last.import_done /\ ~last.import_raised

\* C22: the poll loop of an ingest makes at most 30 polls, 2 seconds apart,
\* so it waits at most 60 seconds; when the operation never reports done it
\* stops after exactly 30 polls and the ingest goes on to insert_one.
C22_PollLoopIsBounded ==
    IsIngest =>
        /\ last.polls <= 30
        /\ last.waited = 2 * last.polls
        /\ last.waited <= 60
        /\ ImportTimedOut =>
              /\ last.polls = 30 /\ last.waited = 60
              /\ "mongo.insert_one" \in last.calls
              /\ last.step \in {"none", "insert"}
              /\ last.step = "none" => RecordsOfLastFile # {}

\* the operation never done: 30 polls, then the catalog record is written
C22_Witness ==
    /\ ImportTimedOut /\ last.op = "upload-and-ask"
    /\ last.polls = 30 /\ last.waited = 60
    /\ "operations.get" \in last.calls
    /\ "mongo.insert_one" \in last.calls
    /\ RecordsOfLastFile # {}

\* the catalog records that carry a gcp_link
WithBlobUrl == {i \in 1..Len(catalog) : Has(catalog[i], "gcp_link")}

\* C23: no two catalog records share a gcp_link, and the blob a record's
\* gcp_link names holds the file that record was ingested from (no later
\* ingest has overwritten it).
C23_DistinctBlobKeys ==
    /\ \A i, j \in WithBlobUrl :
          i # j => catalog[i].gcp_link # catalog[j].gcp_link
    /\ \A i \in WithBlobUrl : \A b \in blobs :
          b.name = BlobNameOfUrl(catalog[i].gcp_link)
              => HostedName(b.content) = catalog[i].gemini_file_name

\* the positions of the catalog records a delete of target t is to look at:
\* by _id when t is a well-formed id, by exact original_filename otherwise
TargetHits(t) ==
    IF IsValidObjectId(t)
    THEN {i \in 1..Len(catalog) : catalog[i]._id = t}
    ELSE {i \in 1..Len(catalog) : catalog[i].original_filename = t}

\* C26: a delete whose input is a well-formed id finds a record exactly when
\* a record has that id, whatever the filenames are; a delete whose input is
\* not a well-formed id finds a record exactly when a record has that
\* original_filename; a delete that returns true has removed exactly one
\* record, the one it found, and any other delete leaves the catalog as it
\* was.
C26_TargetResolution ==
    [][last'.op = "delete" =>
          /\ last'.found <=> TargetHits(last'.target) # {}
          /\ last'.found =>
                \E i \in TargetHits(last'.target) : catalog[i]._id = last'.id
          /\ last'.deleted =>
                /\ last'.found
                /\ Len(catalog') = Len(catalog) - 1
                /\ Ids(catalog') = Ids(catalog) \ {last'.id}
          /\ ~last'.deleted => catalog' = catalog]_vars

\* a well-formed id that no record has, though a record has it as its
\* original_filename: not found
C26_Witness ==
    /\ last.op = "delete" /\ IsValidObjectId(last.target)
    /\ \E i \in 1..Len(catalog) : catalog[i].original_filename = last.target
    /\ ~last.found /\ ~last.deleted /\ last.status = 404

\* C27: every record of the catalog has an _id, an original_filename, an
\* uploaded_at and a status, none of them empty, and its status is "active",
\* whatever ingests, asks and deletes have been served.
C27_RecordsAreWellFormed ==
    \A i \in 1..Len(catalog) :
        /\ {"_id", "original_filename", "uploaded_at", "status"}
              \subseteq catalog[i].fields
        /\ catalog[i]._id # <<>>
        /\ catalog[i].original_filename # <<>>
        /\ catalog[i].uploaded_at \in Nat
        /\ catalog[i].status = "active"

\* an ingested record still in the catalog after a delete removed another
C27_Witness ==
    /\ last.op = "delete" /\ last.deleted
    /\ \E p \in ingested : p.id \in Ids(catalog)
    /\ removed # {}

\* C24: a delete returns true only if its own delete_one removed the catalog
\* row, and of two deletes asked for the same document id, however their
\* steps interleave, at most one returns true.
C24_OnlyTheRemovingDeleteSucceeds ==
    /\ \A w \in Workers :
          deleters[w].pc = "done" /\ deleters[w].ret = "true"
              => deleters[w].removedRow
    /\ \A w1 \in Workers, w2 \in Workers :
          /\ w1 # w2
          /\ deleters[w1].pc = "done" /\ deleters[w2].pc = "done"
          /\ deleters[w1].target = deleters[w2].target
          /\ IsValidObjectId(deleters[w1].target)
          => ~(deleters[w1].ret = "true" /\ deleters[w2].ret = "true")

\* C25: whatever the interleaving of the processes' calls, at most one store
\* carries the target display name, and the calls that met no API failure
\* all returned one and the same name.
C25_OneStoreOneName ==
    LET made == {i \in 1..Len(file_search_stores) :
                    file_search_stores[i] = display_name_target}
        finished == {p \in Procs : loaders[p].pc = "done" /\ ~loaders[p].failed}
    IN  /\ Cardinality(made) <= 1
        /\ \A p \in finished, q \in finished :
              loaders[p].name = loaders[q].name

====
